---- MODULE Spec2Model ----
(***************************************************************************)
(* EquityNest front end (ameenh1/VT_Hacks_25).                             *)
(*                                                                         *)
(* Independent parts of the repository are modelled, each with its own     *)
(* specification over the same variables:                                  *)
(*   Spec        the chatbot widget (ChatbotManager) and the form handoff  *)
(*               of the Try EquityNest page (handleSearch ...)             *)
(*   SpecWidget  the chatbot widget alone (frontend/script.js), and        *)
(*               SpecWidgetLive, the same with fetch assumed to settle     *)
(*   SpecRouter  the vanilla site's page router (showPage)                 *)
(*   SpecSearch  EquityNestAPI.searchProperties and its fallback           *)
(*   SpecRunner  the PowerShell test runner run_tests.ps1                  *)
(*   SpecSaved   the saved properties of the React Marketplace             *)
(*   SpecDeal    the React DealAnalyzer                                    *)
(*   SpecMarket  the marketplace of vanilla/script_backup.js               *)
(*   SpecBudget  the budget controls of the Try EquityNest form            *)
(***************************************************************************)
EXTENDS Integers, Sequences, FiniteSets, TLC

(***************************************************************************)
(* Bounds                                                                  *)
(***************************************************************************)
\* total number of HTTP requests the widget and the form may send
MaxReqs == 2
\* total number of HTTP requests the widget may send on a page without form
MaxWidgetReqs == 3
\* number of clicks on the "Search Properties with AI" button
MaxClicks == 1
\* number of 300 ms close timers pending at the same time
MaxTimers == 1
\* number of 100 ms icon timers of the router pending at the same time
MaxIconTimers == 2
\* number of state updates of the React Marketplace waiting for a render
MaxPending == 2
\* number of rehab items of the Deal Analyzer (it starts with three)
MaxRehabItems == 4
\* number of digits typed into a custom budget field
MaxTyped == 4

(***************************************************************************)
(* JavaScript values                                                       *)
(***************************************************************************)
\* null (sessionId before a session exists, a budget bound that is not set)
Null == 0

\* String.prototype.trim on the location strings of the model
trim(s) == IF s = "   " THEN "" ELSE s

\* JavaScript truthiness of a string / of a number
truthyStr(s) == s # ""
truthyNum(n) == n # 0

(***************************************************************************)
(* Variables                                                               *)
(***************************************************************************)
VARIABLES
    \* ---- ChatbotManager (window.chatbot) ----
    sessionId,      \* this.sessionId, Null or a session id
    isOpen,         \* this.isOpen
    isTyping,       \* this.isTyping (typing indicator shown, send disabled)
    messages,       \* children of elements.messages, in order
    notification,   \* elements.notification is displayed
    windowHidden,   \* elements.window carries the class 'hidden'
    \* ---- timers ----
    notifTimer,     \* the 5000 ms timer of initializeChatbot is pending
    closeTimers,    \* number of pending 300 ms timers of closeChat
    noticeTimers,   \* ids of responses whose 1000 ms hand-off timer is pending
    \* ---- network ----
    requests,       \* every request sent so far, indexed by its id
    \* ---- Try EquityNest page ----
    loading,        \* #demo-loading is displayed
    alerts,         \* texts passed to alert(), in order
    toasts,         \* success notifications shown so far
    clicks,         \* number of handleSearch calls so far
    form,           \* the fields of the search form, as the user filled them
    \* ---- history ----
    openedEarly,    \* openChat has run while the 5000 ms timer was pending
    \* ---- router (vanilla/script.js) ----
    loaded,         \* the DOMContentLoaded handler has run
    lucide,         \* the lucide icon library is defined
    activePages,    \* ids of the .page elements carrying 'active'
    activeLinks,    \* [data-page] elements carrying 'active', by position
    currentPage,    \* currentPage
    iconTimers,     \* pending 100 ms timers that re-create the icons
    \* ---- EquityNestAPI.searchProperties ----
    spc,            \* position inside searchProperties
    sData,          \* its argument
    sResult,        \* how the returned promise settled
    \* ---- run_tests.ps1 ----
    rpc,            \* position inside the script
    bridgeUp,       \* the bridge API answers on localhost:8000
    bridgeRunning,  \* $bridgeRunning
    choice,         \* $choice
    launched,       \* commands launched, in order
    \* ---- React Marketplace (saved properties) ----
    savedProperties, \* the state value the last render saw
    pendingSaved,   \* values passed to setSavedProperties, not yet rendered
    localSaved,     \* localStorage item 'savedProperties', NoItem if absent
    effectPending,  \* the mount effect has not run yet
    lastToast,      \* title of the last toast, "" if none
    \* ---- React DealAnalyzer ----
    analysis,       \* the analysis state object (amounts in cents)
    derived,        \* the values the last render derived from it
    \* ---- marketplace of vanilla/script_backup.js ----
    inputs,         \* values of the filter and sort controls
    filteredProperties, \* filteredProperties, as positions in PROPERTIES
    currentSort,    \* currentSort
    currentPageNum, \* currentPageNum
    filterTimer,    \* the 250 ms debounce timer is pending
    view            \* what renderResults and updatePriceLabels last wrote

chatVars == <<sessionId, isOpen, isTyping, messages, notification, windowHidden,
              notifTimer, closeTimers, noticeTimers, requests,
              loading, alerts, toasts, clicks, form, openedEarly>>
widgetVars == <<sessionId, isOpen, isTyping, messages, notification, windowHidden,
                closeTimers, noticeTimers, openedEarly>>
routerVars == <<loaded, lucide, activePages, activeLinks, currentPage, iconTimers>>
searchVars == <<spc, sData, sResult>>
runnerVars == <<rpc, bridgeUp, bridgeRunning, choice, launched>>
savedVars == <<savedProperties, pendingSaved, localSaved, effectPending, lastToast>>
dealVars == <<analysis, derived>>
marketVars == <<inputs, filteredProperties, currentSort, currentPageNum,
                filterTimer, view>>
vars == <<chatVars, routerVars, searchVars, runnerVars,
          savedVars, dealVars, marketVars>>

(***************************************************************************)
(* Try EquityNest form: reading the DOM                                    *)
(***************************************************************************)
\* characters of a numeric input's value: the digits, and the comma
Comma == 10
Digits == 0..9

\* parseInt(text): the number written by the leading digits of text;
\* NaN (here -1) when text does not start with a digit
NaN == -1
RECURSIVE parseDigits(_, _)
parseDigits(text, acc) ==
    IF text = <<>> \/ Head(text) \notin Digits THEN acc
    ELSE parseDigits(Tail(text), acc * 10 + Head(text))
parseInt(text) ==
    IF text = <<>> \/ Head(text) \notin Digits THEN NaN
    ELSE parseDigits(text, 0)

\* parseInt(value) || 0
parseIntOr0(text) == IF parseInt(text) = NaN THEN 0 ELSE parseInt(text)

\* the property-type checkboxes, in the order getSelectedStrategies reads them
StrategyOrder == <<"primary-residence", "fix-flip", "rental-property",
                   "multi-family", "quick-deals">>

getSelectedStrategies(checked) ==
    SelectSeq(StrategyOrder, LAMBDA id : id \in checked)

\* forms the user can have filled in when the button is clicked
FormOf(location, checked, minText, maxText) ==
    [location |-> location, checked |-> checked, custom |-> FALSE,
     minText |-> minText, maxText |-> maxText,
     customMinText |-> <<>>, customMaxText |-> <<>>]
Forms == {FormOf("", {}, <<>>, <<>>),
          FormOf("", {"fix-flip"}, <<2, 0, 0>>, <<5, 0, 0>>),
          FormOf("   ", {"rental-property", "fix-flip"}, <<>>, <<>>),
          FormOf("Austin, TX", {}, <<2, 0, 0>>, <<5, 0, 0>>),
          FormOf("Austin, TX", {"fix-flip"}, <<>>, <<>>),
          FormOf("Austin, TX", {"rental-property", "fix-flip"},
                 <<2, 0, 0>>, <<5, 0, 0>>)}

getSearchFormData(f) ==
    LET minPrice == IF f.custom THEN parseIntOr0(f.customMinText)
                    ELSE parseIntOr0(f.minText)
        maxPrice == IF f.custom THEN parseIntOr0(f.customMaxText)
                    ELSE parseIntOr0(f.maxText)
    IN [location |-> f.location,
        propertyTypes |-> getSelectedStrategies(f.checked),
        budget |-> [min |-> minPrice, max |-> maxPrice,
                    customBudget |-> f.custom]]

NoSearch == [location |-> "", propertyTypes |-> <<>>,
             budget |-> [min |-> 0, max |-> 0, customBudget |-> FALSE]]

LocationAlert == "Please enter a location (city, state, ZIP code, or address)"
TypeAlert == "Please select at least one property type"
ConnectAlert == "Sorry, there was an error connecting to the chatbot"
SearchErrorAlert == "Search Error"

\* validateSearchData without the trim() of the location
validateSearchData_noTrim(data) ==
    IF ~truthyStr(data.location) THEN LocationAlert
    ELSE IF Len(data.propertyTypes) = 0 THEN TypeAlert
    ELSE ""

\* validateSearchData: "" when the data is valid, else the text it alerts
validateSearchData(data) ==
    IF ~truthyStr(data.location) \/ trim(data.location) = "" THEN LocationAlert
    ELSE IF Len(data.propertyTypes) = 0 THEN TypeAlert
    ELSE ""

\* the frontendData object of startChatbotWithFormData
frontendData(data) ==
    [location |-> data.location,
     property_types |-> data.propertyTypes,
     budget_min |-> IF truthyNum(data.budget.min) THEN data.budget.min ELSE Null,
     budget_max |-> IF truthyNum(data.budget.max) THEN data.budget.max ELSE Null]

NoData == [location |-> "", property_types |-> <<>>,
           budget_min |-> Null, budget_max |-> Null]

\* createFormDataSummary: the parts it joins with a bullet
createFormDataSummary(fd) ==
    (IF truthyStr(fd.location) THEN <<"location">> ELSE <<>>)
    \o (IF Len(fd.property_types) > 0 THEN <<"types">> ELSE <<>>)
    \o (IF truthyNum(fd.budget_min) \/ truthyNum(fd.budget_max)
        THEN <<"budget">> ELSE <<>>)

(***************************************************************************)
(* Requests and chat messages                                              *)
(***************************************************************************)
\* the form of a page that has the widget only (frontend/script.js)
NoForm == FormOf("(no form)", {}, <<>>, <<>>)

\* number of requests after which the model sends no further one
requestCap == IF form = NoForm THEN MaxWidgetReqs ELSE MaxReqs

\* POST /chat/start with an empty body (ChatbotManager.startSession)
StartReq == [kind |-> "start", sid |-> Null, fd |-> NoData,
             status |-> "pending", completed |-> FALSE, prefs |-> FALSE]
\* POST /chat/start carrying frontend_data (startChatbotWithFormData)
HandoffReq(fd) == [kind |-> "handoff", sid |-> Null, fd |-> fd,
                   status |-> "pending", completed |-> FALSE, prefs |-> FALSE]
\* POST /chat/message (ChatbotManager.sendMessage)
MessageReq(sid) == [kind |-> "message", sid |-> sid, fd |-> NoData,
                    status |-> "pending", completed |-> FALSE, prefs |-> FALSE]

Pending(kind) ==
    {r \in 1..Len(requests) :
        requests[r].kind = kind /\ requests[r].status = "pending"}

\* the session_id the server returns for the /chat/start request r: a fresh one
SessionOf(r) == r

Msg(role, kind, ref) == [role |-> role, kind |-> kind, ref |-> ref]

\* addMessage(role, content): appends one element to elements.messages
addMessage(list, role, kind, ref) == Append(list, Msg(role, kind, ref))

(***************************************************************************)
(* ChatbotManager                                                          *)
(***************************************************************************)
\* startSession, up to its await: the requests after the call
startSession(reqs) == Append(reqs, StartReq)

\* openChat that starts a session whether or not one exists
openChat_alwaysStarts(sid, reqs) ==
    /\ Len(reqs) < requestCap
    /\ isOpen' = TRUE
    /\ windowHidden' = FALSE
    /\ notification' = FALSE
    /\ openedEarly' = (openedEarly \/ notifTimer)
    /\ requests' = startSession(reqs)

\* openChat called while this.sessionId is sid and the requests are reqs
openChat(sid, reqs) ==
    /\ sid = Null => Len(reqs) < requestCap
    /\ isOpen' = TRUE
    /\ windowHidden' = FALSE
    /\ notification' = FALSE
    /\ openedEarly' = (openedEarly \/ notifTimer)
    /\ requests' = IF sid = Null THEN startSession(reqs) ELSE reqs

closeChat ==
    /\ closeTimers < MaxTimers
    /\ isOpen' = FALSE
    /\ closeTimers' = closeTimers + 1

\* click on the toggle button
toggleChat ==
    /\ IF isOpen
       THEN closeChat /\ UNCHANGED <<windowHidden, notification, openedEarly, requests>>
       ELSE openChat(sessionId, requests) /\ UNCHANGED closeTimers
    /\ UNCHANGED <<sessionId, isTyping, messages, notifTimer, noticeTimers,
                   loading, alerts, toasts, clicks, form>>

\* click on the minimise button (only reachable while the window is shown)
minimizeChat ==
    /\ ~windowHidden
    /\ closeChat
    /\ UNCHANGED <<windowHidden, notification, openedEarly, requests,
                   sessionId, isTyping, messages, notifTimer, noticeTimers,
                   loading, alerts, toasts, clicks, form>>

\* the 300 ms timer of closeChat fires
closeTimerFires ==
    /\ closeTimers > 0
    /\ closeTimers' = closeTimers - 1
    /\ windowHidden' = TRUE
    /\ UNCHANGED <<sessionId, isOpen, isTyping, messages, notification,
                   notifTimer, noticeTimers, requests, loading, alerts,
                   toasts, clicks, form, openedEarly>>

\* the reply to startSession's request r arrives and is OK
startSessionOk(r) ==
    /\ r \in Pending("start")
    /\ requests' = [requests EXCEPT ![r].status = "ok"]
    /\ sessionId' = SessionOf(r)
    /\ messages' = addMessage(messages, "assistant", "greeting", SessionOf(r))
    /\ UNCHANGED <<isOpen, isTyping, notification, windowHidden, notifTimer,
                   closeTimers, noticeTimers, loading, alerts, toasts, clicks,
                   form, openedEarly>>

\* startSession's request r fails (network error or non-OK status)
startSessionFails(r) ==
    /\ r \in Pending("start")
    /\ requests' = [requests EXCEPT ![r].status = "fail"]
    /\ messages' = addMessage(messages, "assistant", "startError", 0)
    /\ UNCHANGED <<sessionId, isOpen, isTyping, notification, windowHidden,
                   notifTimer, closeTimers, noticeTimers, loading, alerts,
                   toasts, clicks, form, openedEarly>>

\* texts the user can have typed when sendMessage runs
InputTexts == {"", "   ", "hello"}

\* sendMessage that does not test this.isTyping
sendMessage_ignoresTyping(text) ==
    /\ ~windowHidden
    /\ IF ~truthyStr(trim(text))
       THEN UNCHANGED <<messages, isTyping, requests>>
       ELSE /\ Len(requests) < requestCap
            /\ messages' = addMessage(messages, "user", "user", Len(requests) + 1)
            /\ isTyping' = TRUE
            /\ requests' = Append(requests, MessageReq(sessionId))
    /\ UNCHANGED <<sessionId, isOpen, notification, windowHidden, notifTimer,
                   closeTimers, noticeTimers, loading, alerts, toasts, clicks,
                   form, openedEarly>>

\* sendMessage, up to its await; the input is reachable while the window shows
sendMessage(text) ==
    /\ ~windowHidden
    /\ IF ~truthyStr(trim(text)) \/ isTyping
       THEN UNCHANGED <<messages, isTyping, requests>>
       ELSE /\ Len(requests) < requestCap
            /\ messages' = addMessage(messages, "user", "user", Len(requests) + 1)
            /\ isTyping' = TRUE
            /\ requests' = Append(requests, MessageReq(sessionId))
    /\ UNCHANGED <<sessionId, isOpen, notification, windowHidden, notifTimer,
                   closeTimers, noticeTimers, loading, alerts, toasts, clicks,
                   form, openedEarly>>

\* sendMessageOk that tests completed || preferences_collected
sendMessageOk_eitherFlag(r, completed, prefs) ==
    /\ r \in Pending("message")
    /\ requests' = [requests EXCEPT ![r].status = "ok",
                                    ![r].completed = completed,
                                    ![r].prefs = prefs]
    /\ isTyping' = FALSE
    /\ messages' = addMessage(messages, "assistant", "reply", r)
    /\ noticeTimers' = IF completed \/ prefs THEN noticeTimers \cup {r}
                       ELSE noticeTimers
    /\ UNCHANGED <<sessionId, isOpen, notification, windowHidden, notifTimer,
                   closeTimers, loading, alerts, toasts, clicks, form,
                   openedEarly>>

\* the reply to sendMessage's request r arrives and is OK
sendMessageOk(r, completed, prefs) ==
    /\ r \in Pending("message")
    /\ requests' = [requests EXCEPT ![r].status = "ok",
                                    ![r].completed = completed,
                                    ![r].prefs = prefs]
    /\ isTyping' = FALSE
    /\ messages' = addMessage(messages, "assistant", "reply", r)
    /\ noticeTimers' = IF completed /\ prefs THEN noticeTimers \cup {r}
                       ELSE noticeTimers
    /\ UNCHANGED <<sessionId, isOpen, notification, windowHidden, notifTimer,
                   closeTimers, loading, alerts, toasts, clicks, form,
                   openedEarly>>

\* sendMessageFails without hideTyping in the catch block
sendMessageFails_keepsTyping(r) ==
    /\ r \in Pending("message")
    /\ requests' = [requests EXCEPT ![r].status = "fail"]
    /\ messages' = addMessage(messages, "assistant", "sendError", r)
    /\ UNCHANGED <<isTyping, sessionId, isOpen, notification, windowHidden, notifTimer,
                   closeTimers, noticeTimers, loading, alerts, toasts, clicks,
                   form, openedEarly>>

\* sendMessage's request r fails
sendMessageFails(r) ==
    /\ r \in Pending("message")
    /\ requests' = [requests EXCEPT ![r].status = "fail"]
    /\ isTyping' = FALSE
    /\ messages' = addMessage(messages, "assistant", "sendError", r)
    /\ UNCHANGED <<sessionId, isOpen, notification, windowHidden, notifTimer,
                   closeTimers, noticeTimers, loading, alerts, toasts, clicks,
                   form, openedEarly>>

\* the 1000 ms timer set for response r fires: the hand-off notice
noticeTimerFires(r) ==
    /\ r \in noticeTimers
    /\ noticeTimers' = noticeTimers \ {r}
    /\ messages' = addMessage(messages, "assistant", "notice", r)
    /\ UNCHANGED <<sessionId, isOpen, isTyping, notification, windowHidden,
                   notifTimer, closeTimers, requests, loading, alerts, toasts,
                   clicks, form, openedEarly>>

\* the 5000 ms timer of initializeChatbot fires
notificationTimerFires ==
    /\ notifTimer
    /\ notifTimer' = FALSE
    /\ notification' = IF ~isOpen THEN TRUE ELSE notification
    /\ UNCHANGED <<sessionId, isOpen, isTyping, messages, windowHidden,
                   closeTimers, noticeTimers, requests, loading, alerts,
                   toasts, clicks, form, openedEarly>>

(***************************************************************************)
(* Form handoff (Try EquityNest page)                                      *)
(***************************************************************************)
\* updateExistingChatbot that opens the widget before it stores the session id
updateExistingChatbot_opensFirst(sid, fd, reqs) ==
    LET kept == IF sessionId # Null /\ sessionId # sid THEN <<>> ELSE messages
        greeted == addMessage(kept, "assistant", "greeting", sid)
    IN /\ sessionId' = sid
       /\ IF ~isOpen
          THEN openChat(sessionId, reqs)
          ELSE /\ requests' = reqs
               /\ UNCHANGED <<isOpen, windowHidden, notification, openedEarly>>
       /\ messages' = IF createFormDataSummary(fd) # <<>>
                      THEN addMessage(greeted, "system", "summary", sid)
                      ELSE greeted
       /\ toasts' = toasts + 1

\* updateExistingChatbot(chatSession, frontendData), with window.chatbot set;
\* sid is chatSession.session_id, reqs the requests when it is called
updateExistingChatbot(sid, fd, reqs) ==
    LET kept == IF sessionId # Null /\ sessionId # sid THEN <<>> ELSE messages
        greeted == addMessage(kept, "assistant", "greeting", sid)
    IN /\ sessionId' = sid
       /\ IF ~isOpen
          THEN openChat(sid, reqs)
          ELSE /\ requests' = reqs
               /\ UNCHANGED <<isOpen, windowHidden, notification, openedEarly>>
       /\ messages' = IF createFormDataSummary(fd) # <<>>
                      THEN addMessage(greeted, "system", "summary", sid)
                      ELSE greeted
       /\ toasts' = toasts + 1

\* click on "Search Properties with AI": handleSearch up to its await
handleSearch ==
    LET data == getSearchFormData(form) IN
    /\ clicks < MaxClicks
    /\ clicks' = clicks + 1
    /\ IF validateSearchData(data) # ""
       THEN /\ alerts' = Append(alerts, validateSearchData(data))
            /\ UNCHANGED <<loading, requests>>
       ELSE /\ Len(requests) < MaxReqs
            /\ loading' = TRUE
            /\ requests' = Append(requests, HandoffReq(frontendData(data)))
            /\ UNCHANGED alerts
    /\ UNCHANGED <<sessionId, isOpen, isTyping, messages, notification,
                   windowHidden, notifTimer, closeTimers, noticeTimers, toasts,
                   form, openedEarly>>

\* the reply to the handoff request r arrives and is OK: the rest of
\* startChatbotWithFormData and of handleSearch
handoffOk(r) ==
    /\ r \in Pending("handoff")
    /\ updateExistingChatbot(SessionOf(r), requests[r].fd,
                             [requests EXCEPT ![r].status = "ok"])
    /\ loading' = FALSE
    /\ UNCHANGED <<isTyping, notifTimer, closeTimers, noticeTimers, alerts,
                   clicks, form>>

\* handoffFails with hideLoadingState outside a finally block
handoffFails_noFinally(r) ==
    /\ r \in Pending("handoff")
    /\ requests' = [requests EXCEPT ![r].status = "fail"]
    /\ alerts' = alerts \o <<ConnectAlert, SearchErrorAlert>>
    /\ UNCHANGED <<sessionId, isOpen, isTyping, messages, notification,
                   windowHidden, notifTimer, closeTimers, noticeTimers, toasts,
                   clicks, form, openedEarly, loading>>

\* the handoff request r fails: both catch blocks and the finally block
handoffFails(r) ==
    /\ r \in Pending("handoff")
    /\ requests' = [requests EXCEPT ![r].status = "fail"]
    /\ alerts' = alerts \o <<ConnectAlert, SearchErrorAlert>>
    /\ loading' = FALSE
    /\ UNCHANGED <<sessionId, isOpen, isTyping, messages, notification,
                   windowHidden, notifTimer, closeTimers, noticeTimers, toasts,
                   clicks, form, openedEarly>>

\* the promise of searchProperties: not settled yet
NoResult == [outcome |-> "none", tags |-> <<>>]

(***************************************************************************)
(* React Marketplace: the saved properties                                 *)
(***************************************************************************)
\* ids of the mock properties shown as cards
PropertyIds == {"1", "2", "3"}

\* JSON.stringify / JSON.parse of an array of ids: the text is the opening
\* bracket, the ids and the closing bracket
JSONstringify(list) == <<"[">> \o list \o <<"]">>
JSONparse(text) == SubSeq(text, 2, Len(text) - 1)

\* localStorage.getItem of a key that was never set (null, falsy like "")
NoItem == <<>>

\* Array.prototype.includes, Array.prototype.filter(id => id !== propertyId)
includes(list, x) == \E i \in 1..Len(list) : list[i] = x
without(list, x) == SelectSeq(list, LAMBDA y : y # x)

\* useEffect(..., []): runs once after the first render
loadSaved ==
    /\ effectPending
    /\ effectPending' = FALSE
    /\ pendingSaved' = IF localSaved # NoItem
                         THEN Append(pendingSaved, JSONparse(localSaved))
                         ELSE pendingSaved
    /\ UNCHANGED <<savedProperties, localSaved, lastToast>>

\* one click on a save button; savedProperties is the value of the render
\* that created the handler
handleSaveProperty(propertyId) ==
    LET newSaved == IF includes(savedProperties, propertyId)
                      THEN without(savedProperties, propertyId)
                      ELSE Append(savedProperties, propertyId)
    IN  /\ ~effectPending
        /\ Len(pendingSaved) < MaxPending
        /\ pendingSaved' = Append(pendingSaved, newSaved)
        /\ localSaved' = JSONstringify(newSaved)
        /\ lastToast' = IF includes(savedProperties, propertyId)
                          THEN "Property removed" ELSE "Property saved"
        /\ UNCHANGED <<savedProperties, effectPending>>

\* React renders the component again: the last value passed to
\* setSavedProperties becomes the state
renderMarketplace ==
    /\ pendingSaved # <<>>
    /\ savedProperties' = pendingSaved[Len(pendingSaved)]
    /\ pendingSaved' = <<>>
    /\ UNCHANGED <<localSaved, effectPending, lastToast>>

\* lists a previous visit may have left in localStorage
StoredLists == {<<>>, <<"1">>, <<"2", "1">>}

SavedInit ==
    /\ savedProperties = <<>> /\ pendingSaved = <<>> /\ effectPending = TRUE
    /\ localSaved \in {NoItem} \cup {JSONstringify(l) : l \in StoredLists}
    /\ lastToast = ""
SavedIdle ==
    /\ savedProperties = <<>> /\ pendingSaved = <<>> /\ effectPending = TRUE
    /\ localSaved = NoItem /\ lastToast = ""

(***************************************************************************)
(* React DealAnalyzer                                                      *)
(***************************************************************************)
\* A JavaScript value of the analysis object is a number (whole dollars) or
\* a string (the characters typed into an input, digits only).
num(n) == [t |-> "number", v |-> <<n>>]
str(text) == [t |-> "string", v |-> text]

\* Number(value)
Number(x) == IF x.t = "number" THEN x.v[1] ELSE parseDigits(x.v, 0)

\* String(n) for a number n >= 0
RECURSIVE decimal(_)
decimal(n) == IF n < 10 THEN <<n>> ELSE Append(decimal(n \div 10), n % 10)
String(x) == IF x.t = "string" THEN x.v ELSE decimal(x.v[1])

\* a + b: addition of two numbers, concatenation as soon as one is a string
plus(a, b) ==
    IF a.t = "number" /\ b.t = "number" THEN num(a.v[1] + b.v[1])
    ELSE str(String(a) \o String(b))

\* n * 0.08; the prices of the model are multiples of 25, so it is whole
times008(n) == (n * 8) \div 100

\* texts of the number inputs (e.target.value), and names of rehab items
PriceTexts == {<<>>, <<1, 0, 0>>}
CostTexts == {<<5>>}
ItemNames == {"Roof"}

\* useState({...})
InitialAnalysis ==
    [purchasePrice |-> num(285000),
     closingCosts |-> num(22800),
     rehabItems |-> << [item |-> "Kitchen renovation", cost |-> num(25000)],
                       [item |-> "Bathroom updates", cost |-> num(12000)],
                       [item |-> "Flooring", cost |-> num(8000)] >>,
     totalRehab |-> num(45000),
     arv |-> num(365000),
     confidence |-> 85]

\* const totalInvestment = ..., computed by every render
render(a) ==
    [totalInvestment |-> plus(plus(a.purchasePrice, a.closingCosts), a.totalRehab)]

\* every setAnalysis is followed by a render of the component
setAnalysis(next) ==
    /\ analysis' = next
    /\ derived' = render(next)

\* onChange of #purchase-price
changePurchasePrice(text) ==
    setAnalysis([analysis EXCEPT
        !.purchasePrice = num(Number(str(text))),
        !.closingCosts = num(times008(Number(str(text))))])

\* onChange of #closing-costs and of #arv
changeClosingCosts(text) ==
    setAnalysis([analysis EXCEPT !.closingCosts = num(Number(str(text)))])
changeArv(text) ==
    setAnalysis([analysis EXCEPT !.arv = num(Number(str(text)))])

addRehabItem ==
    /\ Len(analysis.rehabItems) < MaxRehabItems
    /\ setAnalysis([analysis EXCEPT
           !.rehabItems = Append(@, [item |-> "", cost |-> num(0)])])

\* prev.rehabItems.reduce(...): the sum starts at the number 0; the edited
\* item counts with Number(value), every other item with its cost as stored
RECURSIVE reduceCosts(_, _, _, _, _, _)
reduceCosts(items, i, index, field, value, sum) ==
    IF i > Len(items) THEN sum
    ELSE reduceCosts(items, i + 1, index, field, value,
            IF i = index
              THEN plus(sum, IF field = "cost" THEN num(Number(value))
                             ELSE items[i].cost)
              ELSE plus(sum, items[i].cost))

\* updateRehabItem(index, field, e.target.value): value is the input's text
updateRehabItem(index, field, text) ==
    /\ index \in 1..Len(analysis.rehabItems)
    /\ setAnalysis([analysis EXCEPT
           !.rehabItems[index] =
               IF field = "cost" THEN [@ EXCEPT !.cost = str(text)]
               ELSE [@ EXCEPT !.item = text],
           !.totalRehab = reduceCosts(analysis.rehabItems, 1, index, field,
                                      str(text), num(0))])

DealInit ==
    /\ analysis = InitialAnalysis
    /\ derived = render(InitialAnalysis)
ReactIdle == SavedIdle /\ DealInit

(***************************************************************************)
(* Marketplace of vanilla/script_backup.js                                 *)
(***************************************************************************)
\* Texts are sequences of characters; the values of the numeric controls
\* are sequences of digits, as for the search form.
PROPERTIES == <<
    [id |-> "p_001", city |-> <<"A", "u", "s", "t", "i", "n">>,
     state |-> "TX", zip |-> <<"7", "8", "7", "0", "1">>, beds |-> 3, baths |-> 2,
     type |-> "House", listPrice |-> 485000, estValue |-> 572000],
    [id |-> "p_002", city |-> <<"D", "a", "l", "l", "a", "s">>,
     state |-> "TX", zip |-> <<"7", "5", "2", "0", "1">>, beds |-> 4, baths |-> 3,
     type |-> "House", listPrice |-> 625000, estValue |-> 590000],
    [id |-> "p_003", city |-> <<"H", "o", "u", "s", "t", "o", "n">>,
     state |-> "TX", zip |-> <<"7", "7", "0", "0", "1">>, beds |-> 2, baths |-> 2,
     type |-> "Condo", listPrice |-> 325000, estValue |-> 385000],
    [id |-> "p_004", city |-> <<"P", "h", "o", "e", "n", "i", "x">>,
     state |-> "AZ", zip |-> <<"8", "5", "0", "0", "1">>, beds |-> 5, baths |-> 4,
     type |-> "House", listPrice |-> 750000, estValue |-> 820000],
    [id |-> "p_005", city |-> <<"M", "i", "a", "m", "i">>,
     state |-> "FL", zip |-> <<"3", "3", "1", "0", "1">>, beds |-> 3, baths |-> 2,
     type |-> "Townhouse", listPrice |-> 545000, estValue |-> 525000],
    [id |-> "p_006", city |-> <<"D", "e", "n", "v", "e", "r">>,
     state |-> "CO", zip |-> <<"8", "0", "2", "0", "1">>, beds |-> 4, baths |-> 3,
     type |-> "House", listPrice |-> 695000, estValue |-> 745000],
    [id |-> "p_007", city |-> <<"S", "e", "a", "t", "t", "l", "e">>,
     state |-> "WA", zip |-> <<"9", "8", "1", "0", "1">>, beds |-> 2, baths |-> 1,
     type |-> "Apartment", listPrice |-> 425000, estValue |-> 465000],
    [id |-> "p_008", city |-> <<"P", "o", "r", "t", "l", "a", "n", "d">>,
     state |-> "OR", zip |-> <<"9", "7", "2", "0", "1">>, beds |-> 3, baths |-> 2,
     type |-> "House", listPrice |-> 535000, estValue |-> 580000],
    [id |-> "p_009", city |-> <<"N", "a", "s", "h", "v", "i", "l", "l", "e">>,
     state |-> "TN", zip |-> <<"3", "7", "2", "0", "1">>, beds |-> 4, baths |-> 3,
     type |-> "House", listPrice |-> 450000, estValue |-> 520000],
    [id |-> "p_010", city |-> <<"A", "t", "l", "a", "n", "t", "a">>,
     state |-> "GA", zip |-> <<"3", "0", "3", "0", "1">>, beds |-> 3, baths |-> 2,
     type |-> "Condo", listPrice |-> 375000, estValue |-> 395000],
    [id |-> "p_011", city |-> <<"C", "h", "a", "r", "l", "o", "t", "t", "e">>,
     state |-> "NC", zip |-> <<"2", "8", "2", "0", "1">>, beds |-> 5, baths |-> 4,
     type |-> "House", listPrice |-> 680000, estValue |-> 725000],
    [id |-> "p_012", city |-> <<"R", "a", "l", "e", "i", "g", "h">>,
     state |-> "NC", zip |-> <<"2", "7", "6", "0", "1">>, beds |-> 2, baths |-> 2,
     type |-> "Townhouse", listPrice |-> 295000, estValue |-> 340000],
    [id |-> "p_013", city |-> <<"T", "a", "m", "p", "a">>,
     state |-> "FL", zip |-> <<"3", "3", "6", "0", "1">>, beds |-> 3, baths |-> 3,
     type |-> "House", listPrice |-> 465000, estValue |-> 485000],
    [id |-> "p_014", city |-> <<"O", "r", "l", "a", "n", "d", "o">>,
     state |-> "FL", zip |-> <<"3", "2", "8", "0", "1">>, beds |-> 4, baths |-> 2,
     type |-> "House", listPrice |-> 385000, estValue |-> 435000],
    [id |-> "p_015", city |-> <<"L", "a", "s", " ", "V", "e", "g", "a", "s">>,
     state |-> "NV", zip |-> <<"8", "9", "1", "0", "1">>, beds |-> 3, baths |-> 2,
     type |-> "House", listPrice |-> 415000, estValue |-> 445000],
    [id |-> "p_016", city |-> <<"S", "a", "l", "t", " ", "L", "a", "k", "e", " ", "C", "i", "t", "y">>,
     state |-> "UT", zip |-> <<"8", "4", "1", "0", "1">>, beds |-> 4, baths |-> 3,
     type |-> "House", listPrice |-> 525000, estValue |-> 565000],
    [id |-> "p_017", city |-> <<"K", "a", "n", "s", "a", "s", " ", "C", "i", "t", "y">>,
     state |-> "MO", zip |-> <<"6", "4", "1", "0", "1">>, beds |-> 5, baths |-> 3,
     type |-> "House", listPrice |-> 345000, estValue |-> 395000],
    [id |-> "p_018", city |-> <<"C", "o", "l", "u", "m", "b", "u", "s">>,
     state |-> "OH", zip |-> <<"4", "3", "2", "0", "1">>, beds |-> 2, baths |-> 1,
     type |-> "Condo", listPrice |-> 235000, estValue |-> 275000],
    [id |-> "p_019", city |-> <<"R", "i", "c", "h", "m", "o", "n", "d">>,
     state |-> "VA", zip |-> <<"2", "3", "2", "2", "0">>, beds |-> 3, baths |-> 2,
     type |-> "Townhouse", listPrice |-> 315000, estValue |-> 355000],
    [id |-> "p_020", city |-> <<"I", "n", "d", "i", "a", "n", "a", "p", "o", "l", "i", "s">>,
     state |-> "IN", zip |-> <<"4", "6", "2", "0", "1">>, beds |-> 4, baths |-> 3,
     type |-> "House", listPrice |-> 285000, estValue |-> 335000],
    [id |-> "p_021", city |-> <<"M", "i", "l", "w", "a", "u", "k", "e", "e">>,
     state |-> "WI", zip |-> <<"5", "3", "2", "0", "1">>, beds |-> 3, baths |-> 2,
     type |-> "Multifamily", listPrice |-> 395000, estValue |-> 425000],
    [id |-> "p_022", city |-> <<"M", "i", "n", "n", "e", "a", "p", "o", "l", "i", "s">>,
     state |-> "MN", zip |-> <<"5", "5", "4", "0", "1">>, beds |-> 2, baths |-> 2,
     type |-> "Condo", listPrice |-> 365000, estValue |-> 385000],
    [id |-> "p_023", city |-> <<"S", "a", "n", " ", "A", "n", "t", "o", "n", "i", "o">>,
     state |-> "TX", zip |-> <<"7", "8", "2", "0", "1">>, beds |-> 4, baths |-> 3,
     type |-> "House", listPrice |-> 425000, estValue |-> 475000],
    [id |-> "p_024", city |-> <<"O", "k", "l", "a", "h", "o", "m", "a", " ", "C", "i", "t", "y">>,
     state |-> "OK", zip |-> <<"7", "3", "1", "0", "1">>, beds |-> 5, baths |-> 4,
     type |-> "House", listPrice |-> 355000, estValue |-> 405000] >>

itemsPerPage == 9

\* String.prototype.toLowerCase, for the letters the texts contain
LowerOf == [A |-> "a", B |-> "b", C |-> "c", D |-> "d", H |-> "h", I |-> "i",
            K |-> "k", L |-> "l", M |-> "m", N |-> "n", O |-> "o", P |-> "p",
            R |-> "r", S |-> "s", T |-> "t", V |-> "v", Y |-> "y"]
toLowerCase(text) ==
    [i \in 1..Len(text) |->
        IF text[i] \in DOMAIN LowerOf THEN LowerOf[text[i]] ELSE text[i]]

\* String.prototype.includes
stringIncludes(text, part) ==
    \E i \in 0..(Len(text) - Len(part)) : SubSeq(text, i + 1, i + Len(part)) = part

\* parseInt(value || fallback) of a numeric control
parseIntOr(value, fallback) == IF value = <<>> THEN fallback ELSE parseInt(value)

computeSavings(property) == property.estValue - property.listPrice

\* the callback of PROPERTIES.filter in applyFilters
matchesFilters(property, location, state, minPrice, maxPrice, beds, baths, type) ==
    /\ (location # <<>>) =>
          \/ stringIncludes(toLowerCase(property.city), location)
          \/ stringIncludes(property.zip, location)
    /\ ~(state # "" /\ property.state # state)
    /\ ~(property.listPrice < minPrice \/ property.listPrice > maxPrice)
    /\ ~(truthyNum(beds) /\ property.beds < beds)
    /\ ~(truthyNum(baths) /\ property.baths < baths)
    /\ ~(type # "" /\ property.type # type)

\* the comparator of sortResults: negative when a goes before b
compare(sort, a, b) ==
    CASE sort = "price-low" -> a.listPrice - b.listPrice
      [] sort = "price-high" -> b.listPrice - a.listPrice
      [] sort = "savings-high" -> computeSavings(b) - computeSavings(a)
      [] sort = "savings-low" -> computeSavings(a) - computeSavings(b)
      [] OTHER -> 0

\* Array.prototype.sort with that comparator; the sort is stable: elements
\* that compare equal keep their order
sortResults(list, sort) ==
    SortSeq(list, LAMBDA a, b : compare(sort, PROPERTIES[a], PROPERTIES[b]) < 0)

\* Math.ceil(n / itemsPerPage)
totalPagesOf(n) == (n + itemsPerPage - 1) \div itemsPerPage

\* Intl.NumberFormat('en-US', currency USD, no fraction digits): the dollar
\* sign, then the digits in groups of three separated by commas
RECURSIVE grouped(_)
grouped(digits) ==
    IF Len(digits) <= 3 THEN digits
    ELSE grouped(SubSeq(digits, 1, Len(digits) - 3)) \o <<Comma>>
           \o SubSeq(digits, Len(digits) - 2, Len(digits))
formatMoney(amount) == <<"$">> \o grouped(decimal(amount))

\* updatePriceLabels: value || 0 and value || 10000000
priceLabels(in) ==
    [minLabel |-> formatMoney(parseIntOr(in.minPrice, 0)),
     maxLabel |-> formatMoney(parseIntOr(in.maxPrice, 10000000))]

\* renderResults with the next button compared one page too late
renderResults_nextOnePageLate(list, page) ==
    LET totalPages == totalPagesOf(Len(list))
        startIndex == (page - 1) * itemsPerPage
        endIndex == startIndex + itemsPerPage
    IN  [resultsCount |-> Len(list),
         pageInfo |-> <<page, IF totalPages = 0 THEN 1 ELSE totalPages>>,
         prevDisabled |-> (page <= 1),
         nextDisabled |-> (page > totalPages),
         grid |-> SubSeq(list, startIndex + 1,
                         IF endIndex < Len(list) THEN endIndex ELSE Len(list))]

\* renderResults
renderResults(list, page) ==
    LET totalPages == totalPagesOf(Len(list))
        startIndex == (page - 1) * itemsPerPage
        endIndex == startIndex + itemsPerPage
    IN  [resultsCount |-> Len(list),
         pageInfo |-> <<page, IF totalPages = 0 THEN 1 ELSE totalPages>>,
         prevDisabled |-> (page <= 1),
         nextDisabled |-> (page >= totalPages),
         grid |-> SubSeq(list, startIndex + 1,
                         IF endIndex < Len(list) THEN endIndex ELSE Len(list))]

\* everything the page shows: the results and the two price labels
viewOf(list, page, in) ==
    [results |-> renderResults(list, page), labels |-> priceLabels(in)]

\* the first lines of applyFilters and PROPERTIES.filter(...); a property is
\* written as its position in PROPERTIES
filterProperties_caseSensitive(in) ==
    LET location == in.location
        state == in.state
        minPrice == parseIntOr(in.minPrice, 0)
        maxPrice == parseIntOr(in.maxPrice, 10000000)
        beds == parseIntOr(in.beds, 0)
        baths == parseIntOr(in.baths, 0)
        type == in.type
    IN  SelectSeq([i \in 1..Len(PROPERTIES) |-> i],
                  LAMBDA i : matchesFilters(PROPERTIES[i], location, state,
                                            minPrice, maxPrice, beds, baths, type))
filterProperties(in) ==
    LET location == toLowerCase(in.location)
        state == in.state
        minPrice == parseIntOr(in.minPrice, 0)
        maxPrice == parseIntOr(in.maxPrice, 10000000)
        beds == parseIntOr(in.beds, 0)
        baths == parseIntOr(in.baths, 0)
        type == in.type
    IN  SelectSeq([i \in 1..Len(PROPERTIES) |-> i],
                  LAMBDA i : matchesFilters(PROPERTIES[i], location, state,
                                            minPrice, maxPrice, beds, baths, type))

\* applyFilters with the controls showing in
applyFiltersWith_keepsPage(in, sort) ==
    /\ inputs' = in
    /\ filteredProperties' = sortResults(filterProperties(in), sort)
    /\ currentSort' = sort
    /\ view' = viewOf(filteredProperties', currentPageNum, in)
    /\ UNCHANGED currentPageNum
applyFiltersWith(in, sort) ==
    /\ inputs' = in
    /\ filteredProperties' = sortResults(filterProperties(in), sort)
    /\ currentSort' = sort
    /\ currentPageNum' = 1
    /\ view' = viewOf(filteredProperties', 1, in)

\* values the user can give to the controls
ControlValues ==
    [location |-> {<<>>, <<"C", "I", "T", "Y">>, <<"7", "8", "2">>},
     state |-> {"", "TX"},
     minPrice |-> {<<4, 0, 0, 0, 0, 0>>},
     maxPrice |-> {<<5, 0, 0, 0, 0, 0>>},
     beds |-> {<<>>, <<4>>},
     baths |-> {<<>>, <<3>>},
     type |-> {"", "House"},
     sort |-> {"price-low", "price-high", "savings-high", "savings-low"}]

\* 'input' on #location-input: the debounced applyFilters is (re)scheduled
inputLocation(text) ==
    /\ inputs.location # text
    /\ inputs' = [inputs EXCEPT !.location = text]
    /\ filterTimer' = TRUE
    /\ UNCHANGED <<filteredProperties, currentSort, currentPageNum, view>>

\* the 250 ms timer of debounce fires
filterTimerFires ==
    /\ filterTimer
    /\ filterTimer' = FALSE
    /\ applyFiltersWith(inputs, currentSort)

\* 'change' on the state, beds, baths and type selects
changeSelect(field, value) ==
    /\ inputs[field] # value
    /\ applyFiltersWith([inputs EXCEPT ![field] = value], currentSort)
    /\ UNCHANGED filterTimer

\* 'input' on #min-price and #max-price: updatePriceLabels
inputPrice(field, text) ==
    /\ inputs[field] # text
    /\ inputs' = [inputs EXCEPT ![field] = text, !.edited = TRUE]
    /\ view' = [view EXCEPT !.labels = priceLabels(inputs')]
    /\ UNCHANGED <<filteredProperties, currentSort, currentPageNum, filterTimer>>

\* 'change' on #min-price and #max-price, after the value was edited
changePrice ==
    /\ inputs.edited
    /\ applyFiltersWith([inputs EXCEPT !.edited = FALSE], currentSort)
    /\ UNCHANGED filterTimer

\* 'change' on #sort-select
changeSort(value) ==
    /\ inputs.sort # value
    /\ inputs' = [inputs EXCEPT !.sort = value]
    /\ currentSort' = value
    /\ filteredProperties' = sortResults(filteredProperties, value)
    /\ view' = [view EXCEPT
                  !.results = renderResults(filteredProperties', currentPageNum)]
    /\ UNCHANGED <<currentPageNum, filterTimer>>

\* the values resetFilters writes into the controls
ResetInputs ==
    [location |-> <<>>, state |-> "", minPrice |-> <<0>>,
     maxPrice |-> <<1, 0, 0, 0, 0, 0, 0, 0>>, beds |-> <<>>, baths |-> <<>>,
     type |-> "", sort |-> "price-low", edited |-> FALSE]

resetFilters ==
    /\ applyFiltersWith([ResetInputs EXCEPT !.edited = inputs.edited],
                        "price-low")
    /\ UNCHANGED filterTimer

changePage(direction) ==
    LET totalPages == totalPagesOf(Len(filteredProperties))
        newPage == currentPageNum + direction
    IN  /\ IF newPage >= 1 /\ newPage <= totalPages
             THEN /\ currentPageNum' = newPage
                  /\ view' = [view EXCEPT !.results =
                                 renderResults(filteredProperties, newPage)]
             ELSE UNCHANGED <<currentPageNum, view>>
        /\ UNCHANGED <<inputs, filteredProperties, currentSort, filterTimer>>

\* the page after initializeMarketplace: updatePriceLabels(), applyFilters()
MarketInit ==
    /\ inputs \in {[ResetInputs EXCEPT !.minPrice = lo, !.maxPrice = hi] :
                      lo \in {<<>>, <<0>>},
                      hi \in {<<>>, <<1, 0, 0, 0, 0, 0, 0, 0>>}}
    /\ currentSort = "price-low"
    /\ filteredProperties = sortResults(filterProperties(inputs), "price-low")
    /\ currentPageNum = 1
    /\ filterTimer = FALSE
    /\ view = viewOf(filteredProperties, 1, inputs)
MarketIdle ==
    /\ inputs = ResetInputs
    /\ currentSort = "price-low"
    /\ filteredProperties = <<>>
    /\ currentPageNum = 1
    /\ filterTimer = FALSE
    /\ view = viewOf(<<>>, 1, ResetInputs)

(***************************************************************************)
(* Initial values of the parts a specification does not run                *)
(***************************************************************************)
ChatIdle ==
    /\ sessionId = Null /\ isOpen = FALSE /\ isTyping = FALSE
    /\ messages = <<>> /\ notification = FALSE /\ windowHidden = TRUE
    /\ notifTimer = TRUE /\ closeTimers = 0 /\ noticeTimers = {}
    /\ requests = <<>> /\ loading = FALSE /\ alerts = <<>> /\ toasts = 0
    /\ clicks = 0 /\ form = FormOf("", {}, <<>>, <<>>) /\ openedEarly = FALSE
RouterIdle ==
    /\ loaded = FALSE /\ lucide = FALSE /\ activePages = {}
    /\ activeLinks = {} /\ currentPage = "home" /\ iconTimers = 0
SearchIdle ==
    /\ spc = "idle" /\ sData = NoSearch /\ sResult = NoResult
RunnerIdle ==
    /\ rpc = "start" /\ bridgeUp = FALSE /\ bridgeRunning = FALSE
    /\ choice = "" /\ launched = <<>>

(***************************************************************************)
(* The chatbot widget and the form handoff                                 *)
(***************************************************************************)
\* new ChatbotManager() and initializeChatbot()
ChatInit ==
    /\ sessionId = Null /\ isOpen = FALSE /\ isTyping = FALSE
    /\ messages = <<>> /\ notification = FALSE /\ windowHidden = TRUE
    /\ notifTimer = TRUE /\ closeTimers = 0 /\ noticeTimers = {}
    /\ requests = <<>> /\ loading = FALSE /\ alerts = <<>> /\ toasts = 0
    /\ clicks = 0 /\ form \in Forms /\ openedEarly = FALSE

Init == ChatInit /\ RouterIdle /\ SearchIdle /\ RunnerIdle /\ ReactIdle /\ MarketIdle

Next ==
    \/ (toggleChat /\ UNCHANGED <<routerVars, searchVars, runnerVars,
                       savedVars, dealVars, marketVars>>)
    \/ (minimizeChat /\ UNCHANGED <<routerVars, searchVars, runnerVars,
                       savedVars, dealVars, marketVars>>)
    \/ (closeTimerFires /\ UNCHANGED <<routerVars, searchVars, runnerVars,
                       savedVars, dealVars, marketVars>>)
    \/ (notificationTimerFires /\ UNCHANGED <<routerVars, searchVars, runnerVars,
                       savedVars, dealVars, marketVars>>)
    \/ (\E r \in 1..MaxReqs : startSessionOk(r)
          /\ UNCHANGED <<routerVars, searchVars, runnerVars,
                       savedVars, dealVars, marketVars>>)
    \/ (\E r \in 1..MaxReqs : startSessionFails(r)
          /\ UNCHANGED <<routerVars, searchVars, runnerVars,
                       savedVars, dealVars, marketVars>>)
    \/ (\E text \in InputTexts : sendMessage(text)
          /\ UNCHANGED <<routerVars, searchVars, runnerVars,
                       savedVars, dealVars, marketVars>>)
    \/ (\E r \in 1..MaxReqs, completed \in BOOLEAN, prefs \in BOOLEAN :
          sendMessageOk(r, completed, prefs)
          /\ UNCHANGED <<routerVars, searchVars, runnerVars,
                       savedVars, dealVars, marketVars>>)
    \/ (\E r \in 1..MaxReqs : sendMessageFails(r)
          /\ UNCHANGED <<routerVars, searchVars, runnerVars,
                       savedVars, dealVars, marketVars>>)
    \/ (\E r \in 1..MaxReqs : noticeTimerFires(r)
          /\ UNCHANGED <<routerVars, searchVars, runnerVars,
                       savedVars, dealVars, marketVars>>)
    \/ (handleSearch /\ UNCHANGED <<routerVars, searchVars, runnerVars,
                       savedVars, dealVars, marketVars>>)
    \/ (\E r \in 1..MaxReqs : handoffOk(r)
          /\ UNCHANGED <<routerVars, searchVars, runnerVars,
                       savedVars, dealVars, marketVars>>)
    \/ (\E r \in 1..MaxReqs : handoffFails(r)
          /\ UNCHANGED <<routerVars, searchVars, runnerVars,
                       savedVars, dealVars, marketVars>>)

Spec == Init /\ [][Next]_vars

(***************************************************************************)
(* The chatbot widget on a page without search form (frontend/script.js)   *)
(***************************************************************************)
\* new ChatbotManager() and initializeChatbot() on a page whose form is f
WidgetInit(f) ==
    /\ sessionId = Null /\ isOpen = FALSE /\ isTyping = FALSE
    /\ messages = <<>> /\ notification = FALSE /\ windowHidden = TRUE
    /\ notifTimer = TRUE /\ closeTimers = 0 /\ noticeTimers = {}
    /\ requests = <<>> /\ loading = FALSE /\ alerts = <<>> /\ toasts = 0
    /\ clicks = 0 /\ form = f /\ openedEarly = FALSE
    /\ RouterIdle /\ SearchIdle /\ RunnerIdle /\ ReactIdle /\ MarketIdle

InitWidget == WidgetInit(NoForm)

\* fetch settles: a /chat/message request is answered or fails
messageSettles ==
    /\ \E r \in 1..MaxWidgetReqs :
          \/ sendMessageFails(r)
          \/ \E completed, prefs \in BOOLEAN : sendMessageOk(r, completed, prefs)
    /\ UNCHANGED <<routerVars, searchVars, runnerVars,
                       savedVars, dealVars, marketVars>>

NextWidget ==
    \/ (toggleChat /\ UNCHANGED <<routerVars, searchVars, runnerVars,
                       savedVars, dealVars, marketVars>>)
    \/ (minimizeChat /\ UNCHANGED <<routerVars, searchVars, runnerVars,
                       savedVars, dealVars, marketVars>>)
    \/ (closeTimerFires /\ UNCHANGED <<routerVars, searchVars, runnerVars,
                       savedVars, dealVars, marketVars>>)
    \/ (notificationTimerFires /\ UNCHANGED <<routerVars, searchVars, runnerVars,
                       savedVars, dealVars, marketVars>>)
    \/ (\E r \in 1..MaxWidgetReqs : startSessionOk(r)
          /\ UNCHANGED <<routerVars, searchVars, runnerVars,
                       savedVars, dealVars, marketVars>>)
    \/ (\E r \in 1..MaxWidgetReqs : startSessionFails(r)
          /\ UNCHANGED <<routerVars, searchVars, runnerVars,
                       savedVars, dealVars, marketVars>>)
    \/ (\E text \in InputTexts : sendMessage(text)
          /\ UNCHANGED <<routerVars, searchVars, runnerVars,
                       savedVars, dealVars, marketVars>>)
    \/ messageSettles
    \/ (\E r \in 1..MaxWidgetReqs : noticeTimerFires(r)
          /\ UNCHANGED <<routerVars, searchVars, runnerVars,
                       savedVars, dealVars, marketVars>>)

SpecWidget == InitWidget /\ [][NextWidget]_vars

\* the widget next to a search form that is left empty and never submitted,
\* with the assumption that fetch settles
SpecWidgetLive ==
    /\ WidgetInit(FormOf("", {}, <<>>, <<>>))
    /\ [][NextWidget]_vars
    /\ WF_vars(messageSettles)

(***************************************************************************)
(* The page router of the vanilla site (showPage)                          *)
(***************************************************************************)
\* the routing table
pages == [p \in {"home", "marketplace", "analyzer", "agent-connect",
                 "pricing", "signin", "signup"} |-> p \o "-page"]

\* ids of the elements of class 'page' in the document
PageElements == {pages[p] : p \in DOMAIN pages} \cup {"demo-page"}

\* the elements that carry a data-page attribute, in document order
DataPageElements ==
    << [page |-> "home", navLink |-> FALSE],
       [page |-> "demo", navLink |-> TRUE],
       [page |-> "marketplace", navLink |-> TRUE],
       [page |-> "analyzer", navLink |-> TRUE],
       [page |-> "agent-connect", navLink |-> TRUE],
       [page |-> "pricing", navLink |-> TRUE],
       [page |-> "signin", navLink |-> FALSE],
       [page |-> "signup", navLink |-> FALSE],
       [page |-> "marketplace", navLink |-> FALSE] >>

NavLinks == {i \in DOMAIN DataPageElements : DataPageElements[i].navLink}

\* document.querySelector('[data-page="pageId"]'): the first match, 0 if none
querySelectorDataPage(pageId) ==
    LET hits == {i \in DOMAIN DataPageElements :
                    DataPageElements[i].page = pageId}
    IN IF hits = {} THEN 0 ELSE CHOOSE i \in hits : \A j \in hits : i <= j

\* showPage without the two loops that remove 'active'
showPage_keepsActive(pageId) ==
    LET targetId == IF pageId \in DOMAIN pages THEN pages[pageId]
                    ELSE pages["home"]
        activeLink == querySelectorDataPage(pageId)
    IN /\ lucide => iconTimers < MaxIconTimers
       /\ activePages' = activePages \cup
               (IF targetId \in PageElements THEN {targetId} ELSE {})
       /\ activeLinks' = activeLinks \cup
               (IF activeLink # 0 /\ activeLink \in NavLinks
                THEN {activeLink} ELSE {})
       /\ currentPage' = pageId
       /\ iconTimers' = IF lucide THEN iconTimers + 1 ELSE iconTimers

showPage(pageId) ==
    LET targetId == IF pageId \in DOMAIN pages THEN pages[pageId]
                    ELSE pages["home"]
        activeLink == querySelectorDataPage(pageId)
    IN /\ lucide => iconTimers < MaxIconTimers
       /\ activePages' = IF targetId \in PageElements THEN {targetId} ELSE {}
       /\ activeLinks' = IF activeLink # 0 /\ activeLink \in NavLinks
                         THEN {activeLink} ELSE {}
       /\ currentPage' = pageId
       /\ iconTimers' = IF lucide THEN iconTimers + 1 ELSE iconTimers

\* DOMContentLoaded: "Initialize page"
domContentLoaded ==
    /\ ~loaded
    /\ loaded' = TRUE
    /\ showPage("home")
    /\ UNCHANGED lucide

\* click inside the element at position i of DataPageElements
clickDataPage(i) ==
    /\ loaded
    /\ showPage(DataPageElements[i].page)
    /\ UNCHANGED <<loaded, lucide>>

\* a 100 ms timer fires: lucide.createIcons()
iconTimerFires ==
    /\ iconTimers > 0
    /\ iconTimers' = iconTimers - 1
    /\ UNCHANGED <<loaded, lucide, activePages, activeLinks, currentPage>>

\* the document as parsed: the markup may carry 'active' on any elements
RouterInit ==
    /\ loaded = FALSE
    /\ lucide \in BOOLEAN
    /\ activePages \in SUBSET PageElements
    /\ activeLinks \in {{}, {2}, {3, 6}}
    /\ currentPage = "home"
    /\ iconTimers = 0

InitRouter ==
    ChatIdle /\ RouterInit /\ SearchIdle /\ RunnerIdle /\ ReactIdle /\ MarketIdle

NextRouter ==
    \/ (domContentLoaded /\ UNCHANGED <<chatVars, searchVars, runnerVars,
                       savedVars, dealVars, marketVars>>)
    \/ (\E i \in DOMAIN DataPageElements : clickDataPage(i)
          /\ UNCHANGED <<chatVars, searchVars, runnerVars,
                       savedVars, dealVars, marketVars>>)
    \/ (iconTimerFires /\ UNCHANGED <<chatVars, searchVars, runnerVars,
                       savedVars, dealVars, marketVars>>)

SpecRouter == InitRouter /\ [][NextRouter]_vars

(***************************************************************************)
(* EquityNestAPI.searchProperties                                          *)
(***************************************************************************)
\* search data of the shape searchProperties reads
LegacySearchData ==
    [city : {"", "Austin"}, state : {"TX"}, zip : {"78701"},
     strategies : {<<>>, <<"fix-flip">>,
                   <<"fix-flip", "rental-property", "quick-deals">>},
     priceRange : {[min |-> 200, max |-> 500]}]

\* every form the page can hold when getSearchFormData runs
AllForms ==
    [location : {"", "   ", "Austin, TX"},
     checked : {{}, {"fix-flip"}, {"rental-property", "fix-flip"},
                {"primary-residence", "multi-family", "quick-deals"}},
     custom : BOOLEAN,
     minText : {<<>>, <<2, 0, 0>>}, maxText : {<<>>, <<5, 0, 0>>},
     customMinText : {<<>>, <<1, Comma, 5, 0, 0>>}, customMaxText : {<<>>}]

FormSearchData == {getSearchFormData(f) : f \in AllForms}

\* array.slice(0, n)
slice(arr, n) == SubSeq(arr, 1, IF n < Len(arr) THEN n ELSE Len(arr))

\* generateSampleResults(searchData): reading .slice of an undefined
\* strategies throws a TypeError
generateSampleResults(data) ==
    IF "strategies" \notin DOMAIN data
    THEN [outcome |-> "rejected", tags |-> <<>>]
    ELSE [outcome |-> "sample",
          tags |-> <<slice(data.strategies, 2), slice(data.strategies, 1),
                     data.strategies>>]

\* the request body can be built: searchData.priceRange.min and .max are read
canBuildRequest(data) == "priceRange" \in DOMAIN data

\* searchProperties(searchData) up to its first await, or through its catch
\* block when building the request throws
searchProperties ==
    /\ spc = "idle"
    /\ IF canBuildRequest(sData)
       THEN spc' = "awaiting" /\ UNCHANGED sResult
       ELSE spc' = "done" /\ sResult' = generateSampleResults(sData)
    /\ UNCHANGED sData

\* fetch rejects, or the status is not OK: the catch block
searchRequestFails ==
    /\ spc = "awaiting"
    /\ spc' = "done"
    /\ sResult' = generateSampleResults(sData)
    /\ UNCHANGED sData

\* the response is OK: data.properties || data.results || []
searchRequestOk ==
    /\ spc = "awaiting"
    /\ spc' = "done"
    /\ sResult' = [outcome |-> "api", tags |-> <<>>]
    /\ UNCHANGED sData

InitSearch ==
    /\ ChatIdle /\ RouterIdle /\ RunnerIdle /\ ReactIdle /\ MarketIdle
    /\ spc = "idle"
    /\ sData \in FormSearchData \cup LegacySearchData
    /\ sResult = NoResult

NextSearch ==
    \/ (searchProperties /\ UNCHANGED <<chatVars, routerVars, runnerVars,
                       savedVars, dealVars, marketVars>>)
    \/ (searchRequestFails /\ UNCHANGED <<chatVars, routerVars, runnerVars,
                       savedVars, dealVars, marketVars>>)
    \/ (searchRequestOk /\ UNCHANGED <<chatVars, routerVars, runnerVars,
                       savedVars, dealVars, marketVars>>)

SpecSearch == InitSearch /\ [][NextSearch]_vars

(***************************************************************************)
(* run_tests.ps1                                                           *)
(***************************************************************************)
ClientTests == "python test_complete_system.py --skip-bridge --skip-integration"
BridgeTests == "python test_complete_system.py --skip-client --skip-integration"
CompleteTests == "python test_complete_system.py"
QuickTests == "python test_complete_system.py --quick"
QuickClientTests ==
    "python test_complete_system.py --quick --skip-bridge --skip-integration"
StartBridge == "python attom_bridge_api.py"

TestCommands == {ClientTests, BridgeTests, CompleteTests, QuickTests,
                 QuickClientTests}

\* what the user can type at "Select test option (1-6)"
Choices == {"1", "2", "3", "4", "5", "6", "", "0", "7", "12", "2 ", "a", "exit"}

\* $bridgeRunning = Test-BridgeAPI
testBridgeAPI ==
    /\ rpc = "start"
    /\ bridgeRunning' = bridgeUp
    /\ rpc' = "menu"
    /\ UNCHANGED <<bridgeUp, choice, launched>>

\* $choice = Read-Host "Select test option (1-6)"
readChoice(c) ==
    /\ rpc = "menu"
    /\ choice' = c
    /\ rpc' = "switch"
    /\ UNCHANGED <<bridgeUp, bridgeRunning, launched>>

\* the switch statement without the $bridgeRunning tests of options 2 to 4
switchCommands_unguarded(c, running) ==
    IF c = "1" THEN <<ClientTests>>
    ELSE IF c = "2" THEN <<BridgeTests>>
    ELSE IF c = "3" THEN <<CompleteTests>>
    ELSE IF c = "4" THEN <<QuickTests>>
    ELSE IF c = "5" THEN <<StartBridge>>
    ELSE <<>>

\* the commands the switch statement launches
switchCommands(c, running) ==
    IF c = "1" THEN <<ClientTests>>
    ELSE IF c = "2" THEN (IF running THEN <<BridgeTests>> ELSE <<>>)
    ELSE IF c = "3" THEN (IF running THEN <<CompleteTests>> ELSE <<>>)
    ELSE IF c = "4" THEN (IF running THEN <<QuickTests>> ELSE <<QuickClientTests>>)
    ELSE IF c = "5" THEN <<StartBridge>>
    ELSE <<>>

\* switch ($choice) { ... }; option 6 exits at once
runSwitch ==
    /\ rpc = "switch"
    /\ launched' = launched \o switchCommands(choice, bridgeRunning)
    /\ rpc' = IF choice = "6" THEN "exited" ELSE "pause"
    /\ UNCHANGED <<bridgeUp, bridgeRunning, choice>>

\* Read-Host "Press Enter to exit"
pressEnter ==
    /\ rpc = "pause"
    /\ rpc' = "exited"
    /\ UNCHANGED <<bridgeUp, bridgeRunning, choice, launched>>

\* somebody starts or stops the bridge API while the script runs
bridgeChanges ==
    /\ rpc # "exited"
    /\ bridgeUp' = ~bridgeUp
    /\ UNCHANGED <<rpc, bridgeRunning, choice, launched>>

InitRunner ==
    /\ ChatIdle /\ RouterIdle /\ SearchIdle /\ ReactIdle /\ MarketIdle
    /\ rpc = "start" /\ bridgeUp \in BOOLEAN /\ bridgeRunning = FALSE
    /\ choice = "" /\ launched = <<>>

NextRunner ==
    \/ (testBridgeAPI /\ UNCHANGED <<chatVars, routerVars, searchVars,
                       savedVars, dealVars, marketVars>>)
    \/ (\E c \in Choices : readChoice(c)
          /\ UNCHANGED <<chatVars, routerVars, searchVars,
                       savedVars, dealVars, marketVars>>)
    \/ (runSwitch /\ UNCHANGED <<chatVars, routerVars, searchVars,
                       savedVars, dealVars, marketVars>>)
    \/ (pressEnter /\ UNCHANGED <<chatVars, routerVars, searchVars,
                       savedVars, dealVars, marketVars>>)
    \/ (bridgeChanges /\ UNCHANGED <<chatVars, routerVars, searchVars,
                       savedVars, dealVars, marketVars>>)

SpecRunner == InitRunner /\ [][NextRunner]_vars

(***************************************************************************)
(* The saved properties of the React Marketplace                           *)
(***************************************************************************)
InitSaved ==
    /\ ChatIdle /\ RouterIdle /\ SearchIdle /\ RunnerIdle
    /\ SavedInit /\ DealInit /\ MarketIdle

NextSaved ==
    \/ (loadSaved
          /\ UNCHANGED <<chatVars, routerVars, searchVars, runnerVars,
                         dealVars, marketVars>>)
    \/ (\E id \in PropertyIds : handleSaveProperty(id)
          /\ UNCHANGED <<chatVars, routerVars, searchVars, runnerVars,
                         dealVars, marketVars>>)
    \/ (renderMarketplace
          /\ UNCHANGED <<chatVars, routerVars, searchVars, runnerVars,
                         dealVars, marketVars>>)

SpecSaved == InitSaved /\ [][NextSaved]_vars

(***************************************************************************)
(* The React DealAnalyzer                                                  *)
(***************************************************************************)
InitDeal ==
    /\ ChatIdle /\ RouterIdle /\ SearchIdle /\ RunnerIdle
    /\ SavedIdle /\ DealInit /\ MarketIdle

NextDeal ==
    \/ (\E text \in PriceTexts : changePurchasePrice(text)
          /\ UNCHANGED <<chatVars, routerVars, searchVars, runnerVars,
                         savedVars, marketVars>>)
    \/ (\E text \in PriceTexts : changeClosingCosts(text)
          /\ UNCHANGED <<chatVars, routerVars, searchVars, runnerVars,
                         savedVars, marketVars>>)
    \/ (\E text \in PriceTexts : changeArv(text)
          /\ UNCHANGED <<chatVars, routerVars, searchVars, runnerVars,
                         savedVars, marketVars>>)
    \/ (addRehabItem
          /\ UNCHANGED <<chatVars, routerVars, searchVars, runnerVars,
                         savedVars, marketVars>>)
    \/ (\E index \in 1..MaxRehabItems, text \in CostTexts :
            updateRehabItem(index, "cost", text)
          /\ UNCHANGED <<chatVars, routerVars, searchVars, runnerVars,
                         savedVars, marketVars>>)
    \/ (\E index \in 1..MaxRehabItems, text \in ItemNames :
            updateRehabItem(index, "item", text)
          /\ UNCHANGED <<chatVars, routerVars, searchVars, runnerVars,
                         savedVars, marketVars>>)

SpecDeal == InitDeal /\ [][NextDeal]_vars

(***************************************************************************)
(* The marketplace of vanilla/script_backup.js                             *)
(***************************************************************************)
InitMarket ==
    /\ ChatIdle /\ RouterIdle /\ SearchIdle /\ RunnerIdle
    /\ ReactIdle /\ MarketInit

NextMarket ==
    \/ (\E text \in ControlValues.location : inputLocation(text)
          /\ UNCHANGED <<chatVars, routerVars, searchVars, runnerVars,
                         savedVars, dealVars>>)
    \/ (filterTimerFires
          /\ UNCHANGED <<chatVars, routerVars, searchVars, runnerVars,
                         savedVars, dealVars>>)
    \/ (\E value \in ControlValues.state : changeSelect("state", value)
          /\ UNCHANGED <<chatVars, routerVars, searchVars, runnerVars,
                         savedVars, dealVars>>)
    \/ (\E value \in ControlValues.beds : changeSelect("beds", value)
          /\ UNCHANGED <<chatVars, routerVars, searchVars, runnerVars,
                         savedVars, dealVars>>)
    \/ (\E value \in ControlValues.baths : changeSelect("baths", value)
          /\ UNCHANGED <<chatVars, routerVars, searchVars, runnerVars,
                         savedVars, dealVars>>)
    \/ (\E value \in ControlValues.type : changeSelect("type", value)
          /\ UNCHANGED <<chatVars, routerVars, searchVars, runnerVars,
                         savedVars, dealVars>>)
    \/ (\E text \in ControlValues.minPrice : inputPrice("minPrice", text)
          /\ UNCHANGED <<chatVars, routerVars, searchVars, runnerVars,
                         savedVars, dealVars>>)
    \/ (\E text \in ControlValues.maxPrice : inputPrice("maxPrice", text)
          /\ UNCHANGED <<chatVars, routerVars, searchVars, runnerVars,
                         savedVars, dealVars>>)
    \/ (changePrice
          /\ UNCHANGED <<chatVars, routerVars, searchVars, runnerVars,
                         savedVars, dealVars>>)
    \/ (\E value \in ControlValues.sort : changeSort(value)
          /\ UNCHANGED <<chatVars, routerVars, searchVars, runnerVars,
                         savedVars, dealVars>>)
    \/ (resetFilters
          /\ UNCHANGED <<chatVars, routerVars, searchVars, runnerVars,
                         savedVars, dealVars>>)
    \/ (\E direction \in {-1, 1} : changePage(direction)
          /\ UNCHANGED <<chatVars, routerVars, searchVars, runnerVars,
                         savedVars, dealVars>>)

SpecMarket == InitMarket /\ [][NextMarket]_vars

(***************************************************************************)
(* Try EquityNest form: the budget controls                                *)
(***************************************************************************)
\* what the user can enter: the digits typed into #custom-min-price and
\* #custom-max-price, the options of #min-price and of #max-price
BudgetValues ==
    [typed |-> {0, 1},
     minPrice |-> {<<>>, <<5, 0, 0>>},
     maxPrice |-> {<<>>, <<2, 0, 0>>}]

\* value.replace(/,/g, '')
withoutCommas(text) == SelectSeq(text, LAMBDA c : c # Comma)

\* formatNumberInput: the new value of the input whose value is text; a
\* text of digits and commas is a number once its commas are removed, and
\* toLocaleString() writes it in groups of three separated by commas
formatNumberInput(text) ==
    LET value == withoutCommas(text)
    IN  IF value # <<>> THEN grouped(decimal(parseInt(value))) ELSE text

\* validateBudgetRange: the value it returns for the form f
validateBudgetRange(f) ==
    LET minVal == IF f.custom THEN parseIntOr0(f.customMinText)
                  ELSE parseIntOr0(f.minText)
        maxVal == IF f.custom THEN parseIntOr0(f.customMaxText)
                  ELSE parseIntOr0(f.maxText)
    IN  ~(minVal > 0 /\ maxVal > 0 /\ minVal >= maxVal)

\* change on #custom-budget-toggle: shows or hides the custom inputs and
\* disables or enables the two selects
toggleCustomBudget ==
    /\ form' = [form EXCEPT !.custom = ~form.custom]
    /\ UNCHANGED <<sessionId, isOpen, isTyping, messages, notification,
                   windowHidden, notifTimer, closeTimers, noticeTimers,
                   requests, loading, alerts, toasts, clicks, openedEarly>>

\* the user types the digit c at the end of a custom input (shown only
\* while the toggle is checked); its input listener is formatNumberInput
inputCustomPrice(field, c) ==
    /\ form.custom
    /\ Len(withoutCommas(form[field])) < MaxTyped
    /\ form' = [form EXCEPT ![field] = formatNumberInput(Append(form[field], c))]
    /\ UNCHANGED <<sessionId, isOpen, isTyping, messages, notification,
                   windowHidden, notifTimer, closeTimers, noticeTimers,
                   requests, loading, alerts, toasts, clicks, openedEarly>>

\* the user picks an option of #min-price or #max-price (enabled only while
\* the toggle is not checked); its change listener is validateBudgetRange,
\* which warns on the console and changes nothing
changePriceSelect(field, value) ==
    /\ ~form.custom
    /\ form' = [form EXCEPT ![field] = value]
    /\ UNCHANGED <<sessionId, isOpen, isTyping, messages, notification,
                   windowHidden, notifTimer, closeTimers, noticeTimers,
                   requests, loading, alerts, toasts, clicks, openedEarly>>

\* the demo page with a location and a property type entered
InitBudget == WidgetInit(FormOf("Austin, TX", {"fix-flip"}, <<>>, <<>>))

NextBudget ==
    \/ (toggleCustomBudget /\ UNCHANGED <<routerVars, searchVars, runnerVars,
                       savedVars, dealVars, marketVars>>)
    \/ (\E c \in BudgetValues.typed : inputCustomPrice("customMinText", c)
          /\ UNCHANGED <<routerVars, searchVars, runnerVars,
                       savedVars, dealVars, marketVars>>)
    \/ (\E c \in BudgetValues.typed : inputCustomPrice("customMaxText", c)
          /\ UNCHANGED <<routerVars, searchVars, runnerVars,
                       savedVars, dealVars, marketVars>>)
    \/ (\E value \in BudgetValues.minPrice : changePriceSelect("minText", value)
          /\ UNCHANGED <<routerVars, searchVars, runnerVars,
                       savedVars, dealVars, marketVars>>)
    \/ (\E value \in BudgetValues.maxPrice : changePriceSelect("maxText", value)
          /\ UNCHANGED <<routerVars, searchVars, runnerVars,
                       savedVars, dealVars, marketVars>>)
    \/ (handleSearch /\ UNCHANGED <<routerVars, searchVars, runnerVars,
                       savedVars, dealVars, marketVars>>)
    \/ (\E r \in 1..MaxReqs : handoffOk(r)
          /\ UNCHANGED <<routerVars, searchVars, runnerVars,
                       savedVars, dealVars, marketVars>>)
    \/ (\E r \in 1..MaxReqs : handoffFails(r)
          /\ UNCHANGED <<routerVars, searchVars, runnerVars,
                       savedVars, dealVars, marketVars>>)

SpecBudget == InitBudget /\ [][NextBudget]_vars

(***************************************************************************)
(* Properties                                                              *)
(***************************************************************************)
Reqs == 1..Len(requests)

\* this step is the arrival of request r's reply, with the given status
Settles(r, kind, status) ==
    /\ r \in Reqs
    /\ requests[r].kind = kind
    /\ requests[r].status = "pending"
    /\ requests'[r].status = status

\* this step is a call of handleSearch
SearchClick == clicks' = clicks + 1

\* positions of the messages of a kind that refer to ref
Positions(kind, ref) ==
    {i \in 1..Len(messages) : messages[i].kind = kind /\ messages[i].ref = ref}

\* C1: a handleSearch call that passes validation sends exactly one
\* /chat/start request, the one carrying frontend_data; when its reply is OK
\* the widget ends open, with the session id of that reply, and no further
\* request has been sent.
C1_HandoffUpdatesWidget ==
    [][ /\ (SearchClick /\ trim(form.location) # "" /\ form.checked # {})
            => /\ Len(requests') = Len(requests) + 1
               /\ requests'[Len(requests')].kind = "handoff"
        /\ \A r \in Reqs :
              Settles(r, "handoff", "ok")
                 => /\ isOpen'
                    /\ sessionId' = SessionOf(r)
                    /\ Len(requests') = Len(requests) ]_vars

\* a handoff succeeded while the widget was closed and had no session
C1_Witness ==
    \E r \in Reqs :
        /\ requests[r].kind = "handoff" /\ requests[r].status = "ok"
        /\ isOpen /\ sessionId = SessionOf(r)
        /\ Len(requests) = 1 /\ ~openedEarly /\ ~notifTimer

\* C2: in the message list the system summary of a handoff comes before the
\* assistant greeting of the session that handoff created.
C2_SummaryBeforeGreeting ==
    \A r \in Reqs :
        \A i \in Positions("greeting", SessionOf(r)) :
            \A j \in Positions("summary", SessionOf(r)) : j < i

\* C3: a handleSearch call with an empty or blank location, or without a
\* checked property type, sends nothing, leaves the widget alone and alerts
\* the text of its case.
C3_InvalidFormSendsNothing ==
    [][ SearchClick =>
          /\ form.location \in {"", "   "}
                => /\ requests' = requests
                   /\ UNCHANGED widgetVars
                   /\ alerts' = Append(alerts, LocationAlert)
          /\ (form.location \notin {"", "   "} /\ form.checked = {})
                => /\ requests' = requests
                   /\ UNCHANGED widgetVars
                   /\ alerts' = Append(alerts, TypeAlert) ]_vars

\* the button was clicked with a blank location while the widget had a session
C3_Witness ==
    /\ clicks = 1 /\ form.location = "   " /\ alerts = <<LocationAlert>>
    /\ sessionId # Null

\* C4: when the handoff request fails the user is alerted, the loading state
\* is removed and the widget's session id, open flag and message list are
\* left as they are; the click itself leaves them alone as well.
C4_FailedHandoffLeavesWidget ==
    [][ /\ SearchClick => UNCHANGED <<sessionId, isOpen, messages>>
        /\ \A r \in Reqs :
              Settles(r, "handoff", "fail")
                 => /\ UNCHANGED <<sessionId, isOpen, messages>>
                    /\ ~loading'
                    /\ Len(alerts') > Len(alerts)
                    /\ alerts'[Len(alerts) + 1] = ConnectAlert ]_vars

\* a handoff failed while the widget was open with a session and messages
C4_Witness ==
    \E r \in Reqs :
        /\ requests[r].kind = "handoff" /\ requests[r].status = "fail"
        /\ ~loading /\ isOpen /\ sessionId # Null /\ messages # <<>>

\* the toggle click that opens the widget (a handoff opens it as well)
OpensByToggle ==
    /\ ~isOpen /\ isOpen'
    /\ \A r \in Reqs : ~Settles(r, "handoff", "ok")

\* C5: opening the widget sends one POST /chat/start when sessionId is null
\* and nothing otherwise; an OK reply stores its session id and appends the
\* server's message as an assistant message.
C5_OpenStartsSessionOnce ==
    [][ /\ OpensByToggle
            => requests' = IF sessionId = Null THEN Append(requests, StartReq)
                           ELSE requests
        /\ \A r \in Reqs :
              Settles(r, "start", "ok")
                 => /\ sessionId' = SessionOf(r)
                    /\ messages' = Append(messages,
                           Msg("assistant", "greeting", SessionOf(r))) ]_vars

\* the widget was closed and opened again with a session: one request only
C5_Witness ==
    /\ isOpen /\ sessionId # Null /\ closeTimers > 0
    /\ Len(requests) = 1 /\ requests[1].kind = "start"

\* the response r carried completed and preferences_collected, both true
BothFlags(r) ==
    /\ requests[r].kind = "message" /\ requests[r].status = "ok"
    /\ requests[r].completed /\ requests[r].prefs

\* C6 as stated: a hand-off notice follows a response with both flags, once
\* per response, and sits directly after that response's assistant message.
C6_NoticeDirectlyAfterReply ==
    \A i \in 1..Len(messages) :
        messages[i].kind = "notice"
           => /\ messages[i].ref \in Reqs /\ BothFlags(messages[i].ref)
              /\ Cardinality(Positions("notice", messages[i].ref)) = 1
              /\ i > 1
              /\ messages[i - 1] = Msg("assistant", "reply", messages[i].ref)

\* C6 as amended: a hand-off notice follows a response with both flags, once
\* per response, and comes after that response's assistant message when that
\* message is still in the list.
C6_NoticeAfterReply ==
    \A i \in 1..Len(messages) :
        messages[i].kind = "notice"
           => /\ messages[i].ref \in Reqs /\ BothFlags(messages[i].ref)
              /\ Cardinality(Positions("notice", messages[i].ref)) = 1
              /\ \A j \in Positions("reply", messages[i].ref) : j < i

\* a notice is in the list, not directly after its reply
C6_Witness ==
    \E i \in 2..Len(messages) :
        /\ messages[i].kind = "notice"
        /\ messages[i - 1].kind # "reply"
        /\ Positions("reply", messages[i].ref) # {}

\* C7: the badge is displayed only if the widget was not opened during the
\* 5 seconds after initialisation, and never while the widget is open.
C7_BadgeOnlyIfNeverOpened ==
    notification => ~openedEarly /\ ~isOpen

\* C8: once showPage has run, exactly the page element mapped to the current
\* page id carries 'active' (the home page for an id outside the table), and
\* at most one nav link carries 'active'.
C8_OneActivePage ==
    loaded =>
        /\ activePages = {IF currentPage \in DOMAIN pages
                          THEN pages[currentPage] ELSE "home-page"}
        /\ Cardinality(activePages) = 1
        /\ Cardinality(activeLinks) <= 1
        /\ activeLinks \subseteq NavLinks

\* showPage ran for an id outside the table, after a markup with other
\* active elements
C8_Witness ==
    /\ loaded /\ currentPage = "demo" /\ activePages = {"home-page"}
    /\ activeLinks = {2}

\* C9: searchProperties never rejects: for search data that
\* getSearchFormData produced, a request that cannot be built or sent or
\* that is not OK resolves to the sample results.
C9_SearchFallsBack ==
    (spc = "done" /\ sData \in FormSearchData) => sResult.outcome = "sample"

\* C10: with a failed health check options 2 and 3 launch nothing and
\* option 4 launches the client quick tests only; an input outside 1-6
\* launches nothing.
C10_RunnerGuards ==
    rpc \in {"pause", "exited"} =>
        /\ (choice \in {"2", "3"} /\ ~bridgeRunning) => launched = <<>>
        /\ (choice = "4" /\ ~bridgeRunning) => launched = <<QuickClientTests>>
        /\ choice \notin {"1", "2", "3", "4", "5", "6"} => launched = <<>>

\* option 2 was chosen after a failed health check, with the bridge up by then
C10_Witness ==
    /\ rpc = "pause" /\ choice = "2" /\ ~bridgeRunning /\ bridgeUp
    /\ launched = <<>>

\* ---- React Marketplace ----
\* the saved list as the component holds it: the state of the last render,
\* or the last value given to setSavedProperties since
SavedList(rendered, pending) ==
    IF pending = <<>> THEN rendered ELSE pending[Len(pending)]
NoDuplicates(list) ==
    \A i, j \in 1..Len(list) : list[i] = list[j] => i = j
Ids(list) == {list[i] : i \in 1..Len(list)}

\* C11: every click on a save button toggles exactly the clicked id in the
\* saved list (added if absent, removed if present, never duplicated), keeps
\* every other saved id, and leaves localStorage['savedProperties'] holding
\* the same list, also for clicks handled before the next render.
C11_ClickTogglesOnlyThatId ==
    [][\A id \in PropertyIds : handleSaveProperty(id) =>
          LET before == SavedList(savedProperties, pendingSaved)
              after == SavedList(savedProperties', pendingSaved')
          IN  /\ Ids(after) = IF id \in Ids(before) THEN Ids(before) \ {id}
                              ELSE Ids(before) \cup {id}
              /\ NoDuplicates(after)
              /\ localSaved' = JSONstringify(after)]_vars

\* ---- React DealAnalyzer ----
\* C12: Total Investment is always the sum of the purchase price, the
\* closing costs and the total rehab cost.
C12_TotalInvestmentIsSum ==
    /\ analysis.totalRehab.t = "number"
    /\ derived.totalInvestment =
          num(Number(analysis.purchasePrice) + Number(analysis.closingCosts)
              + Number(analysis.totalRehab))

\* ---- marketplace of vanilla/script_backup.js ----
LastPage == IF totalPagesOf(Len(filteredProperties)) < 1 THEN 1
            ELSE totalPagesOf(Len(filteredProperties))

Bound(text) == IF text = <<>> THEN 0 ELSE parseInt(text)
Matches(q, location, state, lo, hi, beds, baths, type) ==
    /\ \/ location = <<>>
       \/ stringIncludes(toLowerCase(q.city), location)
       \/ stringIncludes(q.zip, location)
    /\ (state = "" \/ q.state = state)
    /\ lo <= q.listPrice
    /\ (hi = 0 \/ q.listPrice <= hi)
    /\ q.beds >= beds
    /\ q.baths >= baths
    /\ (type = "" \/ q.type = type)
SortKey(sort, q) ==
    CASE sort = "price-low" -> q.listPrice
      [] sort = "price-high" -> 0 - q.listPrice
      [] sort = "savings-high" -> 0 - (q.estValue - q.listPrice)
      [] sort = "savings-low" -> q.estValue - q.listPrice
OrderedBy(list, sort) ==
    \A i \in 1..(Len(list) - 1) :
        SortKey(sort, PROPERTIES[list[i]]) <= SortKey(sort, PROPERTIES[list[i + 1]])
ExactlyTheMatches ==
    LET location == toLowerCase(inputs.location)
        lo == Bound(inputs.minPrice)
        hi == Bound(inputs.maxPrice)
        beds == Bound(inputs.beds)
        baths == Bound(inputs.baths)
    IN  /\ Ids(filteredProperties) =
              {i \in 1..Len(PROPERTIES) :
                  Matches(PROPERTIES[i], location, inputs.state, lo, hi,
                          beds, baths, inputs.type)}
        /\ NoDuplicates(filteredProperties)
        /\ OrderedBy(filteredProperties, currentSort)

\* C20: whenever applyFilters has run for the values the controls show (no
\* debounce timer and no price change pending), the list holds exactly the
\* properties that match every filter that is set, ordered by the current
\* sort key; resetFilters yields all properties by ascending price on page 1.
C20_FilterIsExact ==
    /\ []((~filterTimer /\ ~inputs.edited) => ExactlyTheMatches)
    /\ [][resetFilters =>
            /\ Len(filteredProperties') = Len(PROPERTIES)
            /\ OrderedBy(filteredProperties', "price-low")
            /\ currentPageNum' = 1]_vars
\* a location typed in capitals has selected the three "... City" properties
C20_Witness ==
    /\ inputs.location = <<"C", "I", "T", "Y">>
    /\ ~filterTimer
    /\ Ids(filteredProperties) = {16, 17, 24}
    /\ currentSort = "savings-high"

\* the cards of pages p, p + 1, ... up to the last page, one after another
RECURSIVE CardsFrom(_)
CardsFrom(p) ==
    IF p > totalPagesOf(Len(filteredProperties)) THEN <<>>
    ELSE renderResults(filteredProperties, p).grid \o CardsFrom(p + 1)

\* C21: the page shows at most 9 cards, namely items (currentPageNum-1)*9 to
\* currentPageNum*9-1 of the sorted filteredProperties, so that the pages
\* together show every filtered property exactly once; the previous button
\* is disabled exactly on page 1, the next button exactly on the last page
\* or when there are no results, and the label reads 'Page X of Y', Y >= 1.
C21_PageShowsItsSlice ==
    LET shown == view.results
        n == Len(filteredProperties)
        first == (currentPageNum - 1) * itemsPerPage
    IN  /\ Len(shown.grid) <= itemsPerPage
        /\ Len(shown.grid) =
              IF n - first >= itemsPerPage THEN itemsPerPage
              ELSE IF n - first > 0 THEN n - first ELSE 0
        /\ \A k \in 1..Len(shown.grid) :
              shown.grid[k] = filteredProperties[first + k]
        /\ CardsFrom(1) = filteredProperties
        /\ shown.prevDisabled <=> (currentPageNum = 1)
        /\ shown.nextDisabled <=> (currentPageNum = LastPage \/ n = 0)
        /\ shown.pageInfo = <<currentPageNum, LastPage>>
        /\ shown.pageInfo[2] >= 1
        /\ shown.resultsCount = n
\* the last page of all properties is shown and is not full
C21_Witness ==
    /\ currentPageNum = 3
    /\ Len(view.results.grid) = 6
    /\ view.results.nextDisabled
    /\ ~view.results.prevDisabled
\* no property matches: an empty grid on 'Page 1 of 1', both buttons disabled
C21_WitnessEmpty ==
    /\ filteredProperties = <<>>
    /\ view.results.grid = <<>>
    /\ view.results.nextDisabled

\* ---- ChatbotManager, continued ----
\* sessions created by a form handoff that has been answered
HandoffSessions ==
    {SessionOf(r) : r \in {q \in Reqs : /\ requests[q].kind = "handoff"
                                         /\ requests[q].status = "ok"}}

\* C13: once a form handoff has set sessionId to the session created with
\* the form data, no later event (other than a further handoff) changes
\* sessionId or appends the greeting of a different session.
C13_HandoffSessionKept ==
    [][(sessionId \in HandoffSessions /\ HandoffSessions' = HandoffSessions) =>
          /\ sessionId' = sessionId
          /\ (Len(messages') > Len(messages)
                /\ messages'[Len(messages')].kind = "greeting")
               => messages'[Len(messages')].ref = sessionId]_vars

\* C14: at most one POST /chat/start issued by the widget is in flight.
C14_OneStartInFlight == Cardinality(Pending("start")) <= 1

\* C15: every POST /chat/message carries a session id that an earlier,
\* successful POST /chat/start returned.
C15_MessageHasSession ==
    \A r \in Reqs : requests[r].kind = "message" =>
        /\ requests[r].sid # Null
        /\ \E q \in 1..(r - 1) :
              /\ requests[q].kind \in {"start", "handoff"}
              /\ requests[q].status = "ok"
              /\ SessionOf(q) = requests[r].sid

UserMessages == {i \in 1..Len(messages) : messages[i].kind = "user"}

\* C16: sendMessage changes nothing when the trimmed input is empty or while
\* isTyping; at most one /chat/message request is in flight, and every user
\* message in the list belongs to exactly one /chat/message request.
C16_OneMessageInFlight ==
    /\ [](/\ Cardinality(Pending("message")) <= 1
          /\ \A i \in UserMessages :
                /\ messages[i].ref \in Reqs
                /\ requests[messages[i].ref].kind = "message"
                /\ \A j \in UserMessages : messages[j].ref = messages[i].ref => j = i)
    /\ [][\A text \in InputTexts :
            (sendMessage(text) /\ (~truthyStr(trim(text)) \/ isTyping))
               => UNCHANGED <<messages, requests>>]_vars
\* a message is being answered while the window is open and another request
\* could still be sent
C16_Witness ==
    /\ isTyping /\ ~windowHidden
    /\ Len(requests) < requestCap
    /\ Cardinality(Pending("message")) = 1
    /\ UserMessages # {}

C18_HiddenIffClosed == (closeTimers = 0) => (windowHidden <=> ~isOpen)

\* ---- budget controls of the Try EquityNest form ----
\* the requests that handed a search to the chatbot
HandoffRequests == {r \in Reqs : requests[r].kind = "handoff"}

\* C22: the budget range is validated before a search is handed to the
\* chatbot: every frontend_data sent to /chat/start in which budget_min and
\* budget_max are both set has budget_min < budget_max, and a form whose
\* minimum is not less than its maximum sends no request.
C22_BudgetRangeValidated ==
    /\ [](\A r \in HandoffRequests :
            (requests[r].fd.budget_min # Null /\ requests[r].fd.budget_max # Null)
                => requests[r].fd.budget_min < requests[r].fd.budget_max)
    /\ [][(SearchClick /\ ~validateBudgetRange(form))
             => requests' = requests]_vars

\* the amount the user typed into a custom budget field: the number written
\* by its digits
Typed(text) == parseDigits(withoutCommas(text), 0)
OrNull(n) == IF n = 0 THEN Null ELSE n

\* C23: with the custom budget enabled, the budget_min and budget_max sent
\* to /chat/start equal the amounts the user typed: getSearchFormData reads
\* back the original number from a value that formatNumberInput has
\* rewritten with thousands separators, also for amounts of 1,000 or more.
C23_TypedBudgetIsSent ==
    /\ [](form.custom =>
            /\ getSearchFormData(form).budget.min = Typed(form.customMinText)
            /\ getSearchFormData(form).budget.max = Typed(form.customMaxText))
    /\ [][(SearchClick /\ form.custom /\ Len(requests') > Len(requests))
             => /\ requests'[Len(requests')].fd.budget_min
                     = OrNull(Typed(form.customMinText))
                /\ requests'[Len(requests')].fd.budget_max
                     = OrNull(Typed(form.customMaxText))]_vars

====
